---- MODULE Spec2Model ----
(***************************************************************************)
(* A model of src/UI.py: the chunker (chunk_text), the ingestion entry     *)
(* point (upload_pdf), the synthesis generator (generate_handbook_stream)  *)
(* and the conversation router (chat).                                     *)
(*                                                                         *)
(* A Python str is a sequence of one-character strings.  A literal of the  *)
(* program that is only ever copied around (a fixed message) is a single   *)
(* element of such a sequence.                                             *)
(***************************************************************************)
EXTENDS Integers, Sequences, FiniteSets, TLC

\* ------------------------------------------------------------------ bounds
\* longest text handed to chunk_text (texts over {"a", "b"})
MaxLen == 4
\* largest window size / overlap handed to chunk_text
MaxSize == 4
\* chunk_text iterations explored for a call that never returns
MaxChunks == 12
\* most fragments in one completion stream
MaxFrags == 2
\* largest target word count handed to generate_handbook_stream
MaxTarget == 30
\* the section index is followed exactly up to this value and held there
SectionCap == 28
\* the call and event counters are followed exactly up to this value and held there
CountCap == 3
\* longest text a PDF extraction delivers to upload_pdf
MaxUploadLen == 1700

\* ------------------------------------------------------------ Python str
Min(a, b) == IF a < b THEN a ELSE b
Max(a, b) == IF a > b THEN a ELSE b

\* str.isspace for one character
IsSpace(c) == c \in {" ", "\n"}

RECURSIVE lstrip(_)
lstrip(s) == IF s # <<>> /\ IsSpace(Head(s)) THEN lstrip(Tail(s)) ELSE s

RECURSIVE rstrip(_)
rstrip(s) ==
  IF s # <<>> /\ IsSpace(s[Len(s)]) THEN rstrip(SubSeq(s, 1, Len(s) - 1)) ELSE s

\* str.strip()
strip(s) == rstrip(lstrip(s))

\* a count of characters instead of words
CharCount(s) == Len(s)

\* len(s.split()): the maximal runs of non-whitespace characters, counted by
\* where they start
WordCount(s) ==
  Cardinality({j \in 1..Len(s) : ~IsSpace(s[j]) /\ (j = 1 \/ IsSpace(s[j - 1]))})

\* sep.join(parts)
RECURSIVE join(_, _)
join(sep, parts) ==
  IF parts = <<>> THEN <<>>
  ELSE IF Len(parts) = 1 THEN parts[1]
  ELSE parts[1] \o sep \o join(sep, Tail(parts))

\* one bound of a slice: negative counts from the end, then clamped to 0..n
SliceIndex(k, n) == IF k < 0 THEN Max(n + k, 0) ELSE Min(k, n)

\* a slice that stops one character early
PySliceShort(s, lo, hi) ==
  LET a == SliceIndex(lo, Len(s))
      b == SliceIndex(hi - 1, Len(s))
  IN  IF a < b THEN SubSeq(s, a + 1, b) ELSE <<>>

\* s[lo:hi]
PySlice(s, lo, hi) ==
  LET a == SliceIndex(lo, Len(s))
      b == SliceIndex(hi, Len(s))
  IN  IF a < b THEN SubSeq(s, a + 1, b) ELSE <<>>

\* s[lo:]
PySliceFrom(s, lo) ==
  LET a == SliceIndex(lo, Len(s)) IN SubSeq(s, a + 1, Len(s))

DigitChar == <<"0", "1", "2", "3", "4", "5", "6", "7", "8", "9">>

\* str(n) for n >= 0
RECURSIVE IntStr(_)
IntStr(n) ==
  IF n < 10 THEN <<DigitChar[n + 1]>>
  ELSE IntStr(n \div 10) \o <<DigitChar[(n % 10) + 1]>>

\* ------------------------------------------------------------- chunk_text
\* chunk ids numbered from 1 instead of 0
ChunkIdFromOne(i) == <<"c", "h", "u", "n", "k", "_">> \o IntStr(i + 1)

\* f"chunk_{i}"
ChunkId(i) == <<"c", "h", "u", "n", "k", "_">> \o IntStr(i)

\* the locals of chunk_text before the loop
ChunkInit == [start |-> 0, i |-> 0, chunks |-> <<>>]

\* a loop body that advances by size, forgetting the overlap
ChunkStepNoOverlap(text, size, overlap, st) ==
  LET end == st.start + size IN
  [start  |-> end,
   i      |-> st.i + 1,
   chunks |-> Append(st.chunks,
                     [id |-> ChunkId(st.i), content |-> PySlice(text, st.start, end)])]

\* one iteration of the while loop of chunk_text
ChunkStep(text, size, overlap, st) ==
  LET end == st.start + size IN
  [start  |-> end - overlap,
   i      |-> st.i + 1,
   chunks |-> Append(st.chunks,
                     [id |-> ChunkId(st.i), content |-> PySlice(text, st.start, end)])]

\* the while loop of chunk_text, run to its end from the locals st
RECURSIVE ChunkLoop(_, _, _, _)
ChunkLoop(text, size, overlap, st) ==
  IF st.start < Len(text) THEN ChunkLoop(text, size, overlap, ChunkStep(text, size, overlap, st))
  ELSE st.chunks

\* chunk_text(text, size, overlap); returns only when overlap < size or text = ""
chunk_text(text, size, overlap) == ChunkLoop(text, size, overlap, ChunkInit)

\* --------------------------------------------------------------- state
VARIABLES
  ct_pc,      \* chunk_text call: "loop" inside the while loop, "done" returned
  ct_text,    \* its argument text
  ct_size,    \* its argument size
  ct_overlap, \* its argument overlap
  ct_st       \* its locals start, i, chunks

chunkVars == <<ct_pc, ct_text, ct_size, ct_overlap, ct_st>>

VARIABLES
  g_pc,           \* generate_handbook_stream: where the generator stands
  g_topic,        \* its argument topic
  g_target,       \* its argument target_words
  section,        \* its local section
  document_parts, \* its local document_parts
  total_words,    \* its local total_words
  section_text,   \* its local section_text
  g_stream,       \* the fragments of the current completion stream not yet delivered
  g_yielded,      \* the generator is suspended at a yield, its value not yet taken
  g_event,        \* the value of the latest yield
  g_prompt,       \* the section number of the latest prompt
  n_events,       \* yields so far
  n_final,        \* yields carrying the completion marker so far
  n_search,       \* match_documents calls so far
  n_embed,        \* embeddings.create calls so far
  n_completion,   \* chat.completions.create calls so far
  p_first,        \* the provider: the stream it answers the first request with
  p_rest          \* the provider: the stream it answers every later request with

genVars == <<g_pc, g_topic, g_target, section, document_parts, total_words,
             section_text, g_stream, g_yielded, g_event, g_prompt>>
callVars == <<n_events, n_final, n_search, n_embed, n_completion>>
provVars == <<p_first, p_rest>>

VARIABLES
  PDF_TEXT,   \* the global PDF_TEXT
  CHUNKS,     \* the global CHUNKS
  store,      \* the documents table: the content stored under each chunk id
  u_pc,       \* upload_pdf: "idle", "store" inside store_chunks, "done" returned
  u_file,     \* its argument: "None" or "file"
  u_k,        \* store_chunks: the index of the chunk being stored
  u_embeds,   \* embed calls made by this upload
  u_upserts,  \* upsert calls made by this upload
  u_store0,   \* the documents table when this upload was called
  u_result    \* what upload_pdf returned: status and preview

uploadVars == <<PDF_TEXT, CHUNKS, store, u_pc, u_file, u_k, u_embeds, u_upserts,
                u_store0, u_result>>

VARIABLES
  c_pc,            \* chat: where the generator stands
  c_message,       \* its argument message
  c_history,       \* its argument history
  current_history, \* its local current_history
  c_topic,         \* its local topic
  c_results,       \* its local results
  c_out,           \* the value of the latest yield
  n_yields,        \* yields so far
  c_return         \* <<v>> once chat has ended with return v, <<>> otherwise

chatVars == <<c_pc, c_message, c_history, current_history, c_topic, c_results,
              c_out, n_yields, c_return>>

vars == <<chunkVars, genVars, callVars, provVars, uploadVars, chatVars>>

\* ------------------------------------------------- chunk_text, step by step
RECURSIVE TextsOfLen(_)
TextsOfLen(n) ==
  IF n = 0 THEN {<<>>}
  ELSE {<<c>> \o t : c \in {"a", "b"}, t \in TextsOfLen(n - 1)}

ExampleText == <<"a", "b", "c", "d", "e", "f", "g", "h", "i", "j">>

ChunkTexts == UNION {TextsOfLen(n) : n \in 0..MaxLen} \cup {ExampleText}

\* no generator call in progress
GenIdle ==
  /\ g_pc = "idle" /\ g_topic = <<>> /\ g_target = 0
  /\ section = 0 /\ document_parts = <<>> /\ total_words = 0 /\ section_text = <<>>
  /\ g_stream = <<>> /\ g_yielded = FALSE /\ g_event = <<>> /\ g_prompt = 0
  /\ n_events = 0 /\ n_final = 0 /\ n_search = 0 /\ n_embed = 0 /\ n_completion = 0

\* a provider that is never asked
NoProvider == p_first = <<>> /\ p_rest = <<>>

\* nothing ingested and no upload_pdf call in progress (lines 30-31)
UploadIdle ==
  /\ PDF_TEXT = <<>> /\ CHUNKS = <<>> /\ store = <<>>
  /\ u_pc = "idle" /\ u_file = "None" /\ u_k = 0 /\ u_embeds = 0 /\ u_upserts = 0
  /\ u_store0 = <<>> /\ u_result = [status |-> <<>>, preview |-> <<>>]

\* no chat call in progress
ChatIdle ==
  /\ c_pc = "idle" /\ c_message = <<>> /\ c_history = <<>> /\ current_history = <<>>
  /\ c_topic = <<>> /\ c_results = <<>> /\ c_out = <<>> /\ n_yields = 0
  /\ c_return = <<>>

ChunkInitState ==
  /\ GenIdle
  /\ NoProvider
  /\ UploadIdle
  /\ ChatIdle
  /\ ct_pc = "loop"
  /\ ct_text \in ChunkTexts
  /\ ct_size \in 1..MaxSize
  /\ ct_overlap \in 0..MaxSize
  /\ ct_st = ChunkInit

\* while start < len(text): one iteration
CtIter ==
  /\ ct_pc = "loop"
  /\ ct_st.start < Len(ct_text)
  /\ ct_st.i < MaxChunks
  /\ ct_st' = ChunkStep(ct_text, ct_size, ct_overlap, ct_st)
  /\ UNCHANGED <<ct_pc, ct_text, ct_size, ct_overlap>>
  /\ UNCHANGED <<genVars, callVars, provVars, uploadVars, chatVars>>

\* the loop condition fails: return chunks
CtReturn ==
  /\ ct_pc = "loop"
  /\ ~(ct_st.start < Len(ct_text))
  /\ ct_pc' = "done"
  /\ UNCHANGED <<ct_text, ct_size, ct_overlap, ct_st>>
  /\ UNCHANGED <<genVars, callVars, provVars, uploadVars, chatVars>>

NextChunk == CtIter \/ CtReturn

SpecChunk == ChunkInitState /\ [][NextChunk]_vars

\* ------------------------------------------------------ chunk_text: claims
ValidCall == ct_overlap < ct_size
Returned == ct_pc = "done"
Stride == ct_size - ct_overlap
CeilDiv(a, b) == (a + b - 1) \div b

\* the window of ct_text that starts at offset off (0-based), size characters at most
Window(off) ==
  [j \in 1..(Min(Len(ct_text), off + ct_size) - off) |-> ct_text[off + j]]

\* the offsets k * Stride below len(text), counted
WindowCount == Cardinality({k \in 0..Len(ct_text) : k * Stride < Len(ct_text)})

ExpectedId(k) ==
  <<"c", "h", "u", "n", "k", "_">>
    \o (IF k < 10 THEN <<DigitChar[k + 1]>>
        ELSE <<DigitChar[(k \div 10) + 1], DigitChar[(k % 10) + 1]>>)

Contents(chunks) == [k \in 1..Len(chunks) |-> chunks[k].content]
Ids(chunks) == [k \in 1..Len(chunks) |-> chunks[k].id]

ExampleCall == ct_text = ExampleText /\ ct_size = 4 /\ ct_overlap = 1

\* C5: for size > 0 and 0 <= overlap < size, chunk_text returns, for exactly the
\* i >= 0 with i*(size-overlap) < len(T), the chunk with id "chunk_<i>" and content
\* T[i*(size-overlap) : i*(size-overlap)+size], in order; "abcdefghij" with size 4
\* and overlap 1 gives "abcd", "defg", "ghij", "j" with ids chunk_0..chunk_3.
C5_ChunkWindows ==
  (Returned /\ ValidCall) =>
    /\ Len(ct_st.chunks) = WindowCount
    /\ \A k \in 1..Len(ct_st.chunks) :
         /\ ct_st.chunks[k].id = ExpectedId(k - 1)
         /\ ct_st.chunks[k].content = Window((k - 1) * Stride)
    /\ ExampleCall =>
         /\ Contents(ct_st.chunks) =
              << <<"a", "b", "c", "d">>, <<"d", "e", "f", "g">>,
                 <<"g", "h", "i", "j">>, <<"j">> >>
         /\ Ids(ct_st.chunks) =
              << <<"c", "h", "u", "n", "k", "_", "0">>, <<"c", "h", "u", "n", "k", "_", "1">>,
                 <<"c", "h", "u", "n", "k", "_", "2">>, <<"c", "h", "u", "n", "k", "_", "3">> >>

C5_Witness == Returned /\ ExampleCall /\ Len(ct_st.chunks) = 4

\* C6 as stated: the number of chunks is ceil(max(0, L - overlap) / (size - overlap)),
\* and at least one when L > 0.
C6_CountAsStated ==
  (Returned /\ ValidCall) =>
    /\ Len(ct_st.chunks) = CeilDiv(Max(0, Len(ct_text) - ct_overlap), Stride)
    /\ (Len(ct_text) > 0 => Len(ct_st.chunks) >= 1)

\* C6 as amended: the number of chunks is ceil(L / (size - overlap)): at least one
\* when L > 0 and none for the empty text.
C6_ChunkCount ==
  (Returned /\ ValidCall) =>
    /\ Len(ct_st.chunks) = CeilDiv(Len(ct_text), Stride)
    /\ (Len(ct_text) > 0 => Len(ct_st.chunks) >= 1)
    /\ (Len(ct_text) = 0 => Len(ct_st.chunks) = 0)

C6_Witness ==
  /\ Returned /\ ValidCall /\ ct_overlap > 0
  /\ Len(ct_st.chunks) = 4 /\ Len(ct_text) = 4

\* C7: a call with overlap >= size on a non-empty text is rejected before any chunk
\* is produced: no chunk is ever emitted.
C7_InvalidRejected ==
  (ct_overlap >= ct_size /\ ct_text # <<>>) => ct_st.chunks = <<>>

\* the first chunk whole, every later chunk without its first overlap characters
RECURSIVE UniqueSpans(_, _)
UniqueSpans(contents, overlap) ==
  IF contents = <<>> THEN <<>>
  ELSE LET c == contents[Len(contents)]
           rest == SubSeq(contents, 1, Len(contents) - 1)
       IN  IF rest = <<>> THEN c
           ELSE UniqueSpans(rest, overlap)
                  \o [j \in 1..Max(0, Len(c) - overlap) |-> c[overlap + j]]

\* C8: for a valid (size, overlap), the first chunk followed by every later chunk
\* without its first overlap characters, concatenated in order, is the text.
C8_RoundTrip ==
  (Returned /\ ValidCall) => UniqueSpans(Contents(ct_st.chunks), ct_overlap) = ct_text

C8_Witness ==
  /\ Returned /\ ValidCall /\ ct_overlap = 2 /\ Len(ct_st.chunks) >= 3
  /\ \E j \in 1..Len(ct_text) : ct_text[j] # ct_text[1]
  /\ Len(ct_st.chunks[Len(ct_st.chunks)].content) < ct_overlap

\* s starts with p
Begins(s, p) == Len(s) >= Len(p) /\ \A j \in 1..Len(p) : s[j] = p[j]

\* the last n characters of s
LastChars(s, n) == [j \in 1..n |-> s[Len(s) - n + j]]

\* C18 as stated: every chunk but the final one has exactly size characters, and each
\* chunk after the first begins with the last overlap characters of the chunk before.
C18_AsStated ==
  (Returned /\ ValidCall) =>
    LET cs == Contents(ct_st.chunks) IN
    /\ \A k \in 1..(Len(cs) - 1) : Len(cs[k]) = ct_size
    /\ \A k \in 2..Len(cs) :
         /\ Len(cs[k - 1]) >= ct_overlap
         /\ Begins(cs[k], LastChars(cs[k - 1], ct_overlap))

\* C18 as amended: every chunk whose window lies inside the text has exactly size
\* characters and no chunk has more, so only chunks that reach the end of the text are
\* shorter; each chunk after the first begins with what the chunk before it holds
\* past its first size - overlap characters, which for a chunk of size characters
\* are its last overlap characters.
C18_WindowsOverlap ==
  (Returned /\ ValidCall) =>
    LET cs == Contents(ct_st.chunks) IN
    /\ \A k \in 1..Len(cs) :
         /\ Len(cs[k]) <= ct_size
         /\ ((k - 1) * Stride + ct_size <= Len(ct_text) => Len(cs[k]) = ct_size)
         /\ (Len(cs[k]) < ct_size => cs[k] = LastChars(ct_text, Len(cs[k])))
    /\ \A k \in 2..Len(cs) :
         /\ Begins(cs[k], [j \in 1..Max(0, Len(cs[k - 1]) - Stride) |-> cs[k - 1][Stride + j]])
         /\ (Len(cs[k - 1]) = ct_size =>
               Begins(cs[k], LastChars(cs[k - 1], ct_overlap)))

C18_Witness ==
  /\ Returned /\ ValidCall /\ ct_overlap = 2 /\ ct_size = 3
  /\ Len(ct_st.chunks) = 4
  /\ Len(ct_st.chunks[3].content) = 2
  /\ \E j \in 1..Len(ct_text) : ct_text[j] # ct_text[1]

\* ------------------------------------------------ generate_handbook_stream
\* the section limit of the loop
SectionLimit == 25

GuidanceMessage == <<"Please provide a meaningful topic after 'create a handbook'">>
FinishedMarker == <<"**Handbook generation finished.**">>
BlankLine == <<"\n", "\n">>

\* a counter that is followed up to CountCap
Count(n) == IF n < CountCap THEN n + 1 ELSE n

\* section += 1, followed up to SectionCap (past SectionLimit only section > 25 is read)
NextSection(n) == IF n < SectionCap THEN n + 1 ELSE n

\* a test that takes only the empty topic for blank
TopicEmpty(topic) == topic = <<>>

\* not topic.strip()
TopicBlank(topic) == strip(topic) = <<>>

\* total_words < target_words
LoopRuns(words, target) == words < target

\* "\n\n".join(document_parts + [section_text])
CurrentText(parts, text) == join(BlankLine, Append(parts, text))

\* "\n\n".join(document_parts) + "\n\n**Handbook generation finished.**"
FinalText(parts) == join(BlankLine, parts) \o BlankLine \o FinishedMarker

\* the delta.content values a completion stream can deliver: falsy, whitespace, a word
Fragments == {<<>>, <<" ">>, <<"a", " ">>}

RECURSIVE StreamsOfLen(_)
StreamsOfLen(n) ==
  IF n = 0 THEN {<<>>}
  ELSE {<<f>> \o t : f \in Fragments, t \in StreamsOfLen(n - 1)}

Streams == UNION {StreamsOfLen(n) : n \in 0..MaxFrags}

Topics == {<<>>, <<" ", " ">>, <<"o", "k">>}
Targets == {0, 2, MaxTarget}

\* the first next() on the generator: lines 107-113
GenStart ==
  /\ g_pc = "start"
  /\ IF TopicBlank(g_topic)
       THEN /\ g_event' = GuidanceMessage
            /\ g_yielded' = TRUE
            /\ n_events' = Count(n_events)
            /\ g_pc' = "guided"
            /\ UNCHANGED <<section, document_parts, total_words>>
       ELSE /\ section' = 1
            /\ document_parts' = <<>>
            /\ total_words' = 0
            /\ g_pc' = "while"
            /\ UNCHANGED <<g_event, g_yielded, n_events>>
  /\ UNCHANGED <<g_topic, g_target, section_text, g_stream, g_prompt>>
  /\ UNCHANGED <<n_final, n_search, n_embed, n_completion>>
  /\ UNCHANGED <<chunkVars, provVars, uploadVars, chatVars>>

\* resumed after the guidance message: return (line 109)
GenReturnGuided ==
  /\ g_pc = "guided" /\ ~g_yielded
  /\ g_pc' = "done"
  /\ UNCHANGED <<g_topic, g_target, section, document_parts, total_words,
                 section_text, g_stream, g_yielded, g_event, g_prompt>>
  /\ UNCHANGED <<chunkVars, callVars, provVars, uploadVars, chatVars>>

\* the while test holds: search, build the prompt, open the stream (lines 115-130)
GenRequest ==
  /\ g_pc = "while" /\ ~g_yielded
  /\ LoopRuns(total_words, g_target)
  /\ n_embed' = Count(n_embed)
  /\ n_search' = Count(n_search)
  /\ g_prompt' = section
  /\ n_completion' = Count(n_completion)
  /\ g_stream' = IF n_completion = 0 THEN p_first ELSE p_rest
  /\ section_text' = <<>>
  /\ g_pc' = "for"
  /\ UNCHANGED <<g_topic, g_target, section, document_parts, total_words,
                 g_yielded, g_event, n_events, n_final>>
  /\ UNCHANGED <<chunkVars, provVars, uploadVars, chatVars>>

\* the while test fails: the generator returns (line 115)
GenReturn ==
  /\ g_pc = "while" /\ ~g_yielded
  /\ ~LoopRuns(total_words, g_target)
  /\ g_pc' = "done"
  /\ UNCHANGED <<g_topic, g_target, section, document_parts, total_words,
                 section_text, g_stream, g_yielded, g_event, g_prompt>>
  /\ UNCHANGED <<chunkVars, callVars, provVars, uploadVars, chatVars>>

\* the stream delivers a fragment: lines 131-136
GenFragment ==
  /\ g_pc = "for" /\ ~g_yielded
  /\ g_stream # <<>>
  /\ g_stream' = Tail(g_stream)
  /\ LET content == Head(g_stream) IN
       IF content # <<>>
         THEN /\ section_text' = section_text \o content
              /\ g_event' = CurrentText(document_parts, section_text')
              /\ g_yielded' = TRUE
              /\ n_events' = Count(n_events)
         ELSE UNCHANGED <<section_text, g_event, g_yielded, n_events>>
  /\ g_pc' = "post"
  /\ UNCHANGED <<g_topic, g_target, section, document_parts, total_words, g_prompt>>
  /\ UNCHANGED <<n_final, n_search, n_embed, n_completion>>
  /\ UNCHANGED <<chunkVars, provVars, uploadVars, chatVars>>

\* the rest of the for body: lines 137-144
GenAfterFragment ==
  /\ g_pc = "post" /\ ~g_yielded
  /\ IF strip(section_text) # <<>>
       THEN /\ document_parts' = Append(document_parts, strip(section_text))
            /\ total_words' = total_words + WordCount(section_text)
       ELSE UNCHANGED <<document_parts, total_words>>
  /\ section' = NextSection(section)
  /\ g_pc' = IF section' > SectionLimit THEN "final" ELSE "for"
  /\ UNCHANGED <<g_topic, g_target, section_text, g_stream, g_yielded, g_event, g_prompt>>
  /\ UNCHANGED <<chunkVars, callVars, provVars, uploadVars, chatVars>>

\* the for loop is over, by exhaustion or by break: line 146
GenFinal ==
  /\ ~g_yielded
  /\ g_pc = "final" \/ (g_pc = "for" /\ g_stream = <<>>)
  /\ g_event' = FinalText(document_parts)
  /\ g_yielded' = TRUE
  /\ n_events' = Count(n_events)
  /\ n_final' = Count(n_final)
  /\ g_pc' = "while"
  /\ UNCHANGED <<g_topic, g_target, section, document_parts, total_words,
                 section_text, g_stream, g_prompt>>
  /\ UNCHANGED <<n_search, n_embed, n_completion>>
  /\ UNCHANGED <<chunkVars, provVars, uploadVars, chatVars>>

\* the caller takes the yielded value and asks for the next one
Pull ==
  /\ g_yielded
  /\ g_yielded' = FALSE
  /\ UNCHANGED <<g_pc, g_topic, g_target, section, document_parts, total_words,
                 section_text, g_stream, g_event, g_prompt>>
  /\ UNCHANGED <<chunkVars, callVars, provVars, uploadVars, chatVars>>

\* no chunk_text call in progress
ChunkIdle ==
  /\ ct_pc = "idle" /\ ct_text = <<>> /\ ct_size = 0 /\ ct_overlap = 0
  /\ ct_st = ChunkInit

\* generate_handbook_stream(topic, target_words) called directly and iterated to its end
StreamInit ==
  /\ ChunkIdle
  /\ UploadIdle
  /\ ChatIdle
  /\ g_pc = "start"
  /\ g_topic \in Topics
  /\ g_target \in Targets
  /\ section = 0 /\ document_parts = <<>> /\ total_words = 0 /\ section_text = <<>>
  /\ g_stream = <<>> /\ g_yielded = FALSE /\ g_event = <<>> /\ g_prompt = 0
  /\ n_events = 0 /\ n_final = 0 /\ n_search = 0 /\ n_embed = 0 /\ n_completion = 0
  /\ p_first \in Streams
  /\ p_rest \in Streams

NextStream ==
  \/ GenStart
  \/ GenReturnGuided
  \/ GenRequest
  \/ GenReturn
  \/ GenFragment
  \/ GenAfterFragment
  \/ GenFinal
  \/ Pull

SpecStream == StreamInit /\ [][NextStream]_vars

\* the caller iterates the generator to exhaustion and the generator runs whenever resumed
SpecStreamFair == SpecStream /\ WF_vars(NextStream)

\* ---------------------------------------- generate_handbook_stream: claims
OnlySpaces(t) == \A j \in 1..Len(t) : t[j] \in {" ", "\n"}
HasWord(t) == \E j \in 1..Len(t) : t[j] \notin {" ", "\n"}
StreamHasWord(st) == \E j \in 1..Len(st) : HasWord(st[j])
GenDone == g_pc = "done"

\* C1: the accumulated list of finalized sections never holds more than 25 sections.
C1_AtMost25Sections == Len(document_parts) <= 25

\* C2: for a non-blank topic and a target of at most 3000 words, when every completion
\* stream carries a fragment with a word, the generator eventually terminates.
C2_Terminates ==
  (HasWord(g_topic) /\ g_target <= 3000 /\ StreamHasWord(p_first) /\ StreamHasWord(p_rest))
    => <>GenDone

\* C10: with an empty or whitespace-only topic the generator emits exactly one event,
\* the guidance message, and terminates: no search, embedding or completion call is
\* made and no event carries the completion marker.
C10_BlankTopicGuidanceOnly ==
  (g_pc # "idle" /\ OnlySpaces(g_topic)) =>
    /\ n_search = 0 /\ n_embed = 0 /\ n_completion = 0 /\ n_final = 0
    /\ g_pc \in {"start", "guided", "done"}
    /\ n_events = (IF g_pc = "start" THEN 0 ELSE 1)
    /\ (g_pc # "start" => g_event = GuidanceMessage)

C10_Witness == GenDone /\ g_topic = <<" ", " ">> /\ g_target = MaxTarget /\ n_events = 1

\* C12: hard stop: once the section index has passed 25, no further retrieval or
\* completion request is issued, whatever the word count.
C12_NoRequestPast25 ==
  [][section > 25 => ~(g_pc = "while" /\ g_pc' = "for")]_vars

EndsWithMarker(e) == e # <<>> /\ e[Len(e)] = "**Handbook generation finished.**"

\* C13: in every run with a non-blank topic exactly one event carries the completion
\* marker; it is the last event of the run and its body is the finalized sections
\* joined by blank lines.
C13_OneFinalEvent ==
  (GenDone /\ HasWord(g_topic)) =>
    /\ n_final = 1
    /\ EndsWithMarker(g_event)
    /\ SubSeq(g_event, 1, Len(g_event) - 3) = join(<<"\n", "\n">>, document_parts)

\* C14: every non-empty fragment of a completion stream is appended to the section
\* buffer and produces one intermediate event: when the engine is through with a
\* stream, no non-empty fragment of it is left undelivered.
C14_NoFragmentDropped ==
  (g_pc \in {"final", "while", "done"}) =>
    \A j \in 1..Len(g_stream) : g_stream[j] = <<>>

\* C15: a section is finalized once per completion stream: each request adds at most
\* one entry to the accumulated sections and the k-th request asks for SECTION k.
C15_OneSectionPerRequest ==
  (n_completion < CountCap) =>
    /\ Len(document_parts) <= n_completion
    /\ (n_completion >= 1 => g_prompt = n_completion)

\* the whitespace-delimited words of s, in order
RECURSIVE Words(_)
Words(s) ==
  IF s = <<>> THEN <<>>
  ELSE IF s[1] \in {" ", "\n"} THEN Words(Tail(s))
  ELSE LET n == CHOOSE n \in 1..Len(s) :
                  /\ \A j \in 1..n : s[j] \notin {" ", "\n"}
                  /\ (n = Len(s) \/ s[n + 1] \in {" ", "\n"})
       IN  <<SubSeq(s, 1, n)>> \o Words(SubSeq(s, n + 1, Len(s)))

RECURSIVE SumOfWordCounts(_)
SumOfWordCounts(parts) ==
  IF parts = <<>> THEN 0 ELSE Len(Words(Head(parts))) + SumOfWordCounts(Tail(parts))

\* C19: at every point of a run total_words is the sum of the word counts of the
\* entries of document_parts, and it never decreases.
C19_WordCountMatchesParts ==
  /\ [](total_words = SumOfWordCounts(document_parts))
  /\ [][total_words' >= total_words]_vars

C19_Witness ==
  /\ Len(document_parts) >= 3 /\ total_words >= 4
  /\ \E k \in 1..Len(document_parts) : Len(Words(document_parts[k])) = 2

\* ------------------------------------------------------------- upload_pdf
\* the defaults of chunk_text
ChunkSize == 1000
ChunkOverlap == 200
\* the length of the preview
PreviewLen == 1200

\* the status texts, without the pictograph each starts with in the source
NoFileStatus == <<"No file">>
NoTextStatus == <<"No extractable text">>
\* f"PDF processed\nChunks: {len(CHUNKS)}"
ProcessedStatus(n) == <<"PDF processed", "\n", "Chunks: ">> \o IntStr(n)
\* f"Error: {str(e)}"
ErrorStatus(cause) == <<"Error: ">> \o cause

\* what the failing provider call reports
Causes == {<<"embedding failed">>, <<"upsert failed">>}

\* a test that takes only the empty text for blank
TextEmpty(text) == text = <<>>

\* not PDF_TEXT.strip()
TextBlank(text) == strip(text) = <<>>

\* a write that replaces the whole table by the row
UpsertAlone(table, row) == <<row>>

\* upsert by id: the documents table as a sequence of rows, one per id
Upsert(table, row) ==
  IF \E j \in 1..Len(table) : table[j].id = row.id
    THEN [j \in 1..Len(table) |-> IF table[j].id = row.id THEN row ELSE table[j]]
    ELSE Append(table, row)

Repeat(c, n) == [j \in 1..n |-> c]

\* what extract_pdf_text can deliver: nothing (also for an unreadable file),
\* whitespace only, one chunk, two chunks, three chunks
UploadTexts ==
  {<<>>, <<" ", "\n">>,
   Repeat("a", 1),
   Repeat("b", ChunkSize - ChunkOverlap + 1),
   Repeat("a", MaxUploadLen)}

\* upload_pdf(file) up to its first provider call: lines 149-159
UploadCall ==
  /\ u_pc \in {"idle", "done"}
  /\ u_embeds' = 0 /\ u_upserts' = 0 /\ u_k' = 1
  /\ u_store0' = store
  /\ \E file \in {"None", "file"}, text \in UploadTexts :
       /\ u_file' = file
       /\ IF file = "None"
            THEN /\ u_result' = [status |-> NoFileStatus, preview |-> <<>>]
                 /\ u_pc' = "done"
                 /\ UNCHANGED <<PDF_TEXT, CHUNKS>>
            ELSE /\ PDF_TEXT' = text
                 /\ IF TextBlank(text)
                      THEN /\ u_result' = [status |-> NoTextStatus, preview |-> <<>>]
                           /\ u_pc' = "done"
                           /\ UNCHANGED CHUNKS
                      ELSE /\ CHUNKS' = chunk_text(text, ChunkSize, ChunkOverlap)
                           /\ u_pc' = "store"
                           /\ UNCHANGED u_result
  /\ UNCHANGED store
  /\ UNCHANGED <<chunkVars, genVars, callVars, provVars, chatVars>>

\* store_chunks: embed and upsert the next chunk (lines 72-78)
StoreChunk ==
  /\ u_pc = "store"
  /\ u_k <= Len(CHUNKS)
  /\ u_embeds' = u_embeds + 1
  /\ u_upserts' = u_upserts + 1
  /\ store' = Upsert(store, [id |-> CHUNKS[u_k].id, content |-> CHUNKS[u_k].content])
  /\ u_k' = u_k + 1
  /\ UNCHANGED <<PDF_TEXT, CHUNKS, u_pc, u_file, u_store0, u_result>>
  /\ UNCHANGED <<chunkVars, genVars, callVars, provVars, chatVars>>

\* store_chunks: the embed call raises; caught at line 166
StoreEmbedFails ==
  /\ u_pc = "store"
  /\ u_k <= Len(CHUNKS)
  /\ u_embeds' = u_embeds + 1
  /\ \E cause \in Causes : u_result' = [status |-> ErrorStatus(cause), preview |-> <<>>]
  /\ u_pc' = "done"
  /\ UNCHANGED <<PDF_TEXT, CHUNKS, store, u_file, u_k, u_upserts, u_store0>>
  /\ UNCHANGED <<chunkVars, genVars, callVars, provVars, chatVars>>

\* store_chunks: the embed call returns and the upsert raises; caught at line 166
StoreUpsertFails ==
  /\ u_pc = "store"
  /\ u_k <= Len(CHUNKS)
  /\ u_embeds' = u_embeds + 1
  /\ u_upserts' = u_upserts + 1
  /\ \E cause \in Causes : u_result' = [status |-> ErrorStatus(cause), preview |-> <<>>]
  /\ u_pc' = "done"
  /\ UNCHANGED <<PDF_TEXT, CHUNKS, store, u_file, u_k, u_store0>>
  /\ UNCHANGED <<chunkVars, genVars, callVars, provVars, chatVars>>

\* every chunk is stored: lines 162-165
UploadReturn ==
  /\ u_pc = "store"
  /\ u_k > Len(CHUNKS)
  /\ u_result' = [status  |-> ProcessedStatus(Len(CHUNKS)),
                  preview |-> PySlice(CHUNKS[1].content, 0, PreviewLen)]
  /\ u_pc' = "done"
  /\ UNCHANGED <<PDF_TEXT, CHUNKS, store, u_file, u_k, u_embeds, u_upserts, u_store0>>
  /\ UNCHANGED <<chunkVars, genVars, callVars, provVars, chatVars>>

UploadInit == ChunkIdle /\ GenIdle /\ NoProvider /\ UploadIdle /\ ChatIdle

NextUpload ==
  \/ UploadCall
  \/ StoreChunk
  \/ StoreEmbedFails
  \/ StoreUpsertFails
  \/ UploadReturn

SpecUpload == UploadInit /\ [][NextUpload]_vars

\* ------------------------------------------------------ upload_pdf: claims
\* C9: when the extracted text is empty or whitespace-only, upload_pdf returns the
\* "No extractable text" status with an empty preview, and makes no embedding call
\* and no upsert call: the documents table is as it was at the call.
C9_BlankTextNoCalls ==
  (u_pc # "idle" /\ u_file = "file" /\ OnlySpaces(PDF_TEXT)) =>
    /\ u_pc = "done"
    /\ u_result = [status |-> <<"No extractable text">>, preview |-> <<>>]
    /\ u_embeds = 0 /\ u_upserts = 0
    /\ store = u_store0

C9_Witness ==
  /\ u_pc = "done" /\ u_file = "file" /\ PDF_TEXT = <<" ", "\n">>
  /\ store # <<>> /\ CHUNKS # <<>>

\* chunk k of CHUNKS is in the documents table, under its id
Stored(k) ==
  \E j \in 1..Len(store) :
    store[j].id = CHUNKS[k].id /\ store[j].content = CHUNKS[k].content

UploadFailed == u_pc = "done" /\ u_result.status # <<>> /\ u_result.status[1] = "Error: "

\* C17: ingestion embeds and upserts the chunks in order, one at a time; when the
\* embed or the upsert of a chunk fails, upload_pdf returns "Error: <cause>" with an
\* empty preview, the records of the chunks before it are in the table, and no embed
\* or upsert is attempted for a later chunk.
C17_SequentialNoRollback ==
  /\ (u_pc = "store") =>
       /\ u_embeds = u_k - 1 /\ u_upserts = u_k - 1
       /\ \A k \in 1..(u_k - 1) : Stored(k)
  /\ UploadFailed =>
       /\ u_result.preview = <<>>
       /\ Len(u_result.status) = 2
       /\ u_result.status[2] \in {"embedding failed", "upsert failed"}
       /\ u_k \in 1..Len(CHUNKS)
       /\ \A k \in 1..(u_k - 1) : Stored(k)
       /\ u_embeds = u_k
       /\ u_upserts \in {u_k - 1, u_k}

C17_Witness == UploadFailed /\ u_k = 3 /\ u_upserts = 3 /\ Len(CHUNKS) = 3

\* C20: after any sequence of upload_pdf calls the stored chunk list is the chunking
\* of the stored raw text: CHUNKS = chunk_text(PDF_TEXT).
C20_ChunksOfStoredText ==
  (u_pc \in {"idle", "done"}) => CHUNKS = chunk_text(PDF_TEXT, 1000, 200)

\* ------------------------------------------------------------------ chat
\* the default of target_words
DefaultTarget == 3000
\* where chat cuts the topic out of the message
TopicOffset == 15

Trigger ==
  <<"c", "r", "e", "a", "t", "e", " ", "a", " ", "h", "a", "n", "d", "b", "o", "o", "k">>

UpperLetters ==
  <<"A", "B", "C", "D", "E", "F", "G", "H", "I", "J", "K", "L", "M",
    "N", "O", "P", "Q", "R", "S", "T", "U", "V", "W", "X", "Y", "Z">>
LowerLetters ==
  <<"a", "b", "c", "d", "e", "f", "g", "h", "i", "j", "k", "l", "m",
    "n", "o", "p", "q", "r", "s", "t", "u", "v", "w", "x", "y", "z">>

\* str.lower()
lower(s) ==
  [j \in 1..Len(s) |->
     IF \E k \in 1..26 : UpperLetters[k] = s[j]
       THEN LowerLetters[CHOOSE k \in 1..26 : UpperLetters[k] = s[j]]
       ELSE s[j]]

\* s.startswith(prefix)
startswith(s, prefix) ==
  Len(s) >= Len(prefix) /\ SubSeq(s, 1, Len(prefix)) = prefix

TopicPrompt == <<"Please provide a topic for the handbook.">>
NotFoundReply == <<"I couldn't find relevant information in the document.">>

\* the contents of the placeholder turn and of the streamed turn, without the
\* pictograph each starts with in the source
ThinkingText(topic) == <<"Generating handbook on **">> \o topic \o <<"** ...", "\n", "\n">>
HandbookText(topic, partial) == <<"Handbook: **">> \o topic \o <<"**", "\n", "\n">> \o partial

Turn(role, content) == [role |-> role, content |-> content]

\* a test that takes only the empty message for blank
MessageEmpty(message) == message = <<>>

\* not message.strip()
MessageBlank(message) == strip(message) = <<>>

\* message[15:].strip()
TopicOf(message) == strip(PySliceFrom(message, TopicOffset))

\* an update that appends a new assistant turn instead of overwriting the last one
AppendContent(h, content) == Append(h, Turn("assistant", content))

\* current_history[-1]["content"] = content
SetLastContent(h, content) ==
  [j \in 1..Len(h) |-> IF j = Len(h) THEN Turn(h[j].role, content) ELSE h[j]]

\* a fragment of DefaultTarget / 2 words
BigFragment == [j \in 1..DefaultTarget |-> IF j % 2 = 1 THEN "a" ELSE " "]

\* the streams the provider answers chat's requests with
ChatStreams == {<<>>, << <<>>, <<"a", " ">> >>, <<BigFragment, BigFragment>>}

ChatMessages ==
  {<<>>, <<" ">>, <<"h", "i">>,
   SubSeq(Trigger, 1, TopicOffset),
   Trigger,
   Trigger \o <<" ", "o", "n", " ", " ", " ">>,
   <<"C">> \o Tail(Trigger) \o <<" ", "o", "n", " ", "x">>}

ChatHistories ==
  {<<>>, <<Turn("user", <<"h", "i">>), Turn("assistant", <<"y", "o">>)>>}

\* what match_documents can return for a query
SearchResults == {<<>>, << <<"p">> >>, << <<"p">>, <<"q">> >>}

\* the first next() on chat: lines 171-185 and 193-199
ChatStart ==
  /\ c_pc = "start"
  /\ IF MessageBlank(c_message)
       THEN /\ c_pc' = "done"
            /\ c_return' = <<c_history>>
            /\ UNCHANGED <<current_history, c_topic, c_results, c_out, n_yields>>
            /\ UNCHANGED <<n_embed, n_search>>
       ELSE LET h == Append(c_history, Turn("user", c_message)) IN
            IF startswith(lower(c_message), Trigger)
              THEN /\ c_topic' = TopicOf(c_message)
                   /\ UNCHANGED <<c_results, n_embed, n_search>>
                   /\ IF c_topic' = <<>>
                        THEN /\ current_history' = Append(h, Turn("assistant", TopicPrompt))
                             /\ c_pc' = "done"
                             /\ c_return' = <<current_history'>>
                             /\ UNCHANGED <<c_out, n_yields>>
                        ELSE /\ current_history' =
                                  Append(h, Turn("assistant", ThinkingText(c_topic')))
                             /\ UNCHANGED c_return
                             /\ c_out' = current_history'
                             /\ n_yields' = Count(n_yields)
                             /\ c_pc' = "first_yield"
              ELSE /\ n_embed' = Count(n_embed)
                   /\ n_search' = Count(n_search)
                   /\ \E results \in SearchResults :
                        /\ c_results' = results
                        /\ IF results = <<>>
                             THEN /\ current_history' = h
                                  /\ c_pc' = "done"
                                  /\ UNCHANGED <<c_out, n_yields>>
                             ELSE /\ current_history' =
                                       Append(h, Turn("assistant", join(BlankLine, results)))
                                  /\ c_out' = current_history'
                                  /\ n_yields' = Count(n_yields)
                                  /\ c_pc' = "qa_yield"
                   /\ UNCHANGED <<c_topic, c_return>>
  /\ UNCHANGED <<c_message, c_history>>
  /\ UNCHANGED <<n_events, n_final, n_completion>>
  /\ UNCHANGED <<chunkVars, genVars, provVars, uploadVars>>

\* resumed after the placeholder turn: call generate_handbook_stream(topic), line 187
ChatEnterLoop ==
  /\ c_pc = "first_yield"
  /\ g_pc' = "start"
  /\ g_topic' = c_topic
  /\ g_target' = DefaultTarget
  /\ c_pc' = "for"
  /\ UNCHANGED <<section, document_parts, total_words, section_text, g_stream,
                 g_yielded, g_event, g_prompt>>
  /\ UNCHANGED <<c_message, c_history, current_history, c_topic, c_results, c_out, n_yields,
                 c_return>>
  /\ UNCHANGED <<chunkVars, callVars, provVars, uploadVars>>

\* the generator yielded partial: overwrite the last turn and yield, lines 188-189
ChatOnPartial ==
  /\ c_pc = "for"
  /\ g_yielded
  /\ current_history' = SetLastContent(current_history, HandbookText(c_topic, g_event))
  /\ c_out' = current_history'
  /\ n_yields' = Count(n_yields)
  /\ c_pc' = "partial_yield"
  /\ UNCHANGED <<c_message, c_history, c_topic, c_results, c_return>>
  /\ UNCHANGED <<chunkVars, genVars, callVars, provVars, uploadVars>>

\* resumed inside the for loop: ask the generator for the next partial
ChatResumeLoop ==
  /\ c_pc = "partial_yield"
  /\ g_yielded' = FALSE
  /\ c_pc' = "for"
  /\ UNCHANGED <<g_pc, g_topic, g_target, section, document_parts, total_words,
                 section_text, g_stream, g_event, g_prompt>>
  /\ UNCHANGED <<c_message, c_history, current_history, c_topic, c_results, c_out, n_yields,
                 c_return>>
  /\ UNCHANGED <<chunkVars, callVars, provVars, uploadVars>>

\* the generator is exhausted: return, line 191
ChatLoopEnd ==
  /\ c_pc = "for"
  /\ g_pc = "done"
  /\ c_pc' = "done"
  /\ UNCHANGED <<c_message, c_history, current_history, c_topic, c_results, c_out, n_yields,
                 c_return>>
  /\ UNCHANGED <<chunkVars, genVars, callVars, provVars, uploadVars>>

\* resumed after the answer turn: the function ends, line 199
ChatResumeQA ==
  /\ c_pc = "qa_yield"
  /\ c_pc' = "done"
  /\ UNCHANGED <<c_message, c_history, current_history, c_topic, c_results, c_out, n_yields,
                 c_return>>
  /\ UNCHANGED <<chunkVars, genVars, callVars, provVars, uploadVars>>

\* chat(message, history) iterated to its end by the interface
ChatInit ==
  /\ ChunkIdle
  /\ UploadIdle
  /\ GenIdle
  /\ p_first \in ChatStreams \cup {<< <<"a", " ">> >>}
  /\ p_rest \in ChatStreams
  /\ c_pc = "start"
  /\ c_message \in ChatMessages
  /\ c_history \in ChatHistories
  /\ current_history = <<>> /\ c_topic = <<>> /\ c_results = <<>> /\ c_out = <<>>
  /\ n_yields = 0
  /\ c_return = <<>>

NextChat ==
  \/ ChatStart
  \/ ChatEnterLoop
  \/ ChatOnPartial
  \/ ChatResumeLoop
  \/ ChatLoopEnd
  \/ ChatResumeQA
  \/ GenStart
  \/ GenRequest
  \/ GenReturn
  \/ GenFragment
  \/ GenAfterFragment
  \/ GenFinal

SpecChat == ChatInit /\ [][NextChat]_vars

\* ------------------------------------------------------------ chat: claims
ChatDone == c_pc = "done"

\* the message starts with the handbook trigger, in any case
IsTrigger(m) ==
  /\ Len(m) >= 17
  /\ \A j \in 1..17 :
       \/ m[j] = Trigger[j]
       \/ \E k \in 1..26 : m[j] = UpperLetters[k] /\ Trigger[j] = LowerLetters[k]

\* what follows the trigger, and an optional " on" after it, is blank
BlankAfterTrigger(m) ==
  LET rest == SubSeq(m, 18, Len(m)) IN
  \/ OnlySpaces(rest)
  \/ /\ Len(rest) >= 3
     /\ SubSeq(rest, 1, 3) = <<" ", "o", "n">>
     /\ OnlySpaces(SubSeq(rest, 4, Len(rest)))

QAMessage(m) == HasWord(m) /\ ~IsTrigger(m)

LastTurn(h) == h[Len(h)]

\* C3: in Q&A mode, when the search returns no result, chat yields a history whose
\* last turn is the assistant turn "I couldn't find relevant information in the
\* document."; it never finishes a Q&A message without having yielded an assistant turn.
C3_NotFoundTurnYielded ==
  (ChatDone /\ QAMessage(c_message) /\ c_results = <<>>) =>
    /\ n_yields >= 1
    /\ c_out # <<>>
    /\ LastTurn(c_out) =
         [role |-> "assistant",
          content |-> <<"I couldn't find relevant information in the document.">>]

\* C4: for a message that matches the trigger and whose topic is blank after trimming,
\* chat ends with exactly one new assistant turn, asking for a topic, and
\* generate_handbook_stream is never invoked: no retrieval, embedding or completion call.
C4_BlankTopicAsksForTopic ==
  (c_pc \notin {"idle", "start"} /\ IsTrigger(c_message) /\ BlankAfterTrigger(c_message)) =>
    /\ g_pc = "idle"
    /\ n_search = 0 /\ n_embed = 0 /\ n_completion = 0
    /\ ChatDone =>
         current_history =
           c_history \o <<[role |-> "user", content |-> c_message],
                          [role |-> "assistant",
                           content |-> <<"Please provide a topic for the handbook.">>]>>

\* C11: for an empty or whitespace-only message chat is a no-op: it ends at once,
\* returning the history it was given; it yields nothing, appends no user or
\* assistant turn, and makes no search, embedding or completion call.
C11_BlankMessageNoOp ==
  (c_pc \notin {"idle", "start"} /\ OnlySpaces(c_message)) =>
    /\ ChatDone
    /\ c_return = <<c_history>>
    /\ n_yields = 0 /\ c_out = <<>> /\ current_history = <<>>
    /\ g_pc = "idle"
    /\ n_search = 0 /\ n_embed = 0 /\ n_completion = 0

C11_Witness == ChatDone /\ c_message = <<" ">> /\ Len(c_history) = 2

\* a count as the counters hold it
Held(n) == IF n > CountCap THEN CountCap ELSE n

\* C16: in handbook mode with a non-blank topic every yielded history has exactly
\* len(history) + 2 turns: the given history, the user turn, and one assistant turn,
\* which holds the placeholder at the first yield and afterwards the topic-labeled
\* wrapper around the latest synthesis event; there is one yield for the placeholder
\* and one per synthesis event.
C16_StreamedTurnOverwritten ==
  (c_pc \in {"first_yield", "for", "partial_yield", "done"}
     /\ IsTrigger(c_message) /\ c_topic # <<>>) =>
    /\ Len(c_out) = Len(c_history) + 2
    /\ SubSeq(c_out, 1, Len(c_history)) = c_history
    /\ c_out[Len(c_history) + 1] = [role |-> "user", content |-> c_message]
    /\ LastTurn(c_out).role = "assistant"
    /\ n_yields = Held(IF c_pc = "for" /\ g_yielded THEN n_events ELSE n_events + 1)
    /\ (n_yields = 1 =>
          LastTurn(c_out).content =
            <<"Generating handbook on **">> \o c_topic \o <<"** ...", "\n", "\n">>)
    /\ (c_pc = "partial_yield" =>
          LastTurn(c_out).content =
            <<"Handbook: **">> \o c_topic \o <<"**", "\n", "\n">> \o g_event)

C16_Witness ==
  /\ ChatDone /\ IsTrigger(c_message) /\ Len(c_history) = 2
  /\ n_yields = CountCap /\ n_final >= 1
  /\ EndsWithMarker(LastTurn(c_out).content)

====
